---- MODULE Spec2Model ----
(***************************************************************************)
(* Windows Web App resource drivers (Create / Read / Update / Delete) of   *)
(* internal/services/appservice/windows_web_app_resource.go, modelled as   *)
(* one state machine: the plugin host starts one driver invocation at a    *)
(* time, the invocation walks through its remote calls, and every remote   *)
(* call answers with one of the outcomes the remote system can give.       *)
(*                                                                         *)
(* Strings that the code assembles with "%s.%s" are modelled as the        *)
(* sequence of their dot-separated labels, so that joining with a dot is   *)
(* sequence concatenation and the empty string is <<"">>.                  *)
(***************************************************************************)
EXTENDS Integers, Sequences, FiniteSets, TLC

VARIABLES
    exists,               \* remote system: the site names that exist
    op,                   \* the driver being run: "none", "Create", "Read", "Update", "Delete",
                          \* "DataSourceRead"
    pc,                   \* position of the invocation in the driver's code
    webApp,               \* the decoded model: site name, groups with a non-empty expansion
    changed,              \* Update: fields for which ResourceData.HasChange is true
    calls,                \* remote calls issued by this invocation, in order, with outcome
    result,               \* what the invocation returned
    idSet,                \* metadata.SetID was called by this invocation
    encoded,              \* metadata.Encode was called by this invocation
    warnings,             \* number of metadata.Logger.Warnf calls of this invocation
    servicePlan,          \* Create: HostingEnvironmentProfile of the resolved plan
    existingASE,          \* Create: answer of aseClient.Get
    availabilityRequest,  \* Create: the ResourceNameAvailabilityRequest built so far
    currentStack,         \* Create/Update: stack marker from ExpandSiteConfigWindows
    gi,                   \* index of the next sub-resource group / auxiliary read
    peer,                 \* locals of a second invocation the host runs concurrently,
                          \* while it is not the one taking a step; id 0 when there is none
    remote,               \* remote system: what it stores of the site, when that is followed
    state                 \* plugin host: the ID and the model a driver recorded in state

vars == <<exists, op, pc, webApp, changed, calls, result, idSet, encoded, warnings,
          servicePlan, existingASE, availabilityRequest, currentStack, gi, peer,
          remote, state>>

-----------------------------------------------------------------------------
(* Bounds and value sets                                                   *)

NumSites == 2

AllSiteNames == <<"app1", "app2", "app3">>

SiteNames == {AllSiteNames[i] : i \in 1..NumSites}

Groups == {"app_settings", "auth_settings", "logs", "backup", "storage_account",
           "connection_string"}

PlanName == "plan1"

AseName == "ase1"

EmptyString == <<"">>

\* DNS suffixes an App Service Environment can report (the empty one included).
DnsSuffixes == {EmptyString, <<"ase1", "p", "azurewebsites", "net">>}

\* servicePlan.HostingEnvironmentProfile: nil, or a profile whose ID is nil,
\* not parseable as an App Service Environment ID, or parseable.
HostingProfiles == {"nil", "noId", "badId", "goodId"}

\* aseClient.Get answers: an error, properties without a suffix, or a suffix.
AseAnswers == {[kind |-> "fail"], [kind |-> "noSuffix"]}
                  \cup {[kind |-> "suffix", DNSSuffix |-> s] : s \in DnsSuffixes}

NoAse == [kind |-> "none"]

NoRequest == [Name |-> EmptyString, IsFqdn |-> FALSE]

StackMarkers == {"nil", "", "dotnet"}

-----------------------------------------------------------------------------
(* Helpers                                                                 *)

Call(api, outcome) == [api |-> api, outcome |-> outcome]

\* fmt.Sprintf("%s.%s", a, b) on dot-separated label sequences.
Sprintf2(a, b) == a \o b

\* fmt.Sprintf("%s.%s.%s", a, b, c)
Sprintf3(a, b, c) == a \o b \o c

Issue(api, outcome) == calls' = Append(calls, Call(api, outcome))

\* return fmt.Errorf(...) / return nil / a panic: the invocation is over.
Return(r) == /\ result' = r
             /\ pc' = "done"

\* No invocation is in progress.
Idle == pc = "idle"

\* No second invocation is running.
NoPeer == [id |-> 0, pc |-> "idle", webApp |-> [Name |-> AllSiteNames[1], groups |-> {}],
           calls |-> <<>>, result |-> "none", idSet |-> FALSE, warnings |-> 0,
           servicePlan |-> "nil", existingASE |-> NoAse,
           availabilityRequest |-> NoRequest, currentStack |-> "nil", gi |-> 1]

\* The content of the remote site is not followed: the drivers' control
\* flow depends on the answers' status only.
NotFollowed == [followed |-> FALSE]

\* Nothing recorded in state.
NoState == [id |-> <<>>, encoded |-> FALSE]

\* Local variables as they are when a driver function is entered.
FreshLocals == /\ calls' = <<>>
               /\ idSet' = FALSE
               /\ encoded' = FALSE
               /\ warnings' = 0
               /\ servicePlan' = "nil"
               /\ existingASE' = NoAse
               /\ availabilityRequest' = NoRequest
               /\ currentStack' = "nil"
               /\ gi' = 1

\* client.Get answers for a site: 200 when it exists, 404 when it does not,
\* or any other failure.
GetAnswers(name) == (IF name \in exists THEN {"found"} ELSE {"notFound"}) \cup {"fail"}

\* Answers of a remote call that either succeeds or fails.
OkOrFail == {"ok", "fail"}

\* Lines 309, 316, 323, 330, 337, 346 and 635: the test that the expanded
\* representation of a group is non-empty (appSettings != nil for app settings,
\* non-nil properties for the others).  webApp.groups holds the groups of the
\* decoded model whose expansion passes that test.
ExpandedNonEmpty(g) == g \in webApp.groups

\* The update endpoint of each sub-resource group.
GroupUpdateApi(g) ==
    CASE g = "app_settings"      -> "UpdateApplicationSettings"
      [] g = "auth_settings"     -> "UpdateAuthSettings"
      [] g = "logs"              -> "UpdateDiagnosticLogsConfig"
      [] g = "backup"            -> "UpdateBackupConfiguration"
      [] g = "storage_account"   -> "UpdateAzureStorageAccounts"
      [] g = "connection_string" -> "UpdateConnectionStrings"

\* StackExtracted without the test for the empty string.
StackExtracted_NilOnly(s) == s # "nil"

\* Lines 298 and 603: if currentStack != nil && *currentStack != ""
StackExtracted(s) == s # "nil" /\ s # ""

-----------------------------------------------------------------------------
(* Create                                                                  *)

\* Lines 197-210: Create is entered, the model is decoded, the ID is built.
CreateStart ==
    /\ Idle
    /\ \E name \in SiteNames, groups \in SUBSET Groups, decodeOk \in BOOLEAN :
          /\ op' = "Create"
          /\ webApp' = [Name |-> name, groups |-> groups]
          /\ changed' = {}
          /\ FreshLocals
          /\ pc' = IF decodeOk THEN "c_get" ELSE "done"
          /\ result' = IF decodeOk THEN "running" ELSE "error"
    /\ UNCHANGED exists
    /\ UNCHANGED <<peer, remote, state>>

\* ExistenceVerdict with the requires-import branch (lines 217-219) left out.
ExistenceVerdict_NoImportCheck(resp) ==
    IF resp = "fail" THEN "error" ELSE "continue"

\* Lines 213-219: what Create does with the answer of the existence check.
ExistenceVerdict(resp) ==
    IF resp = "fail" THEN "error"
    ELSE IF resp # "notFound" THEN "requiresImport"
    ELSE "continue"

\* Lines 212-219: existence check by composite ID.
CreateExistenceCheck ==
    /\ op = "Create" /\ pc = "c_get"
    /\ \E resp \in GetAnswers(webApp.Name) :
          /\ Issue("Get", resp)
          /\ IF ExistenceVerdict(resp) = "continue"
                THEN pc' = "c_plan" /\ UNCHANGED result
                ELSE Return(ExistenceVerdict(resp))
    /\ UNCHANGED <<exists, op, webApp, changed, idSet, encoded, warnings, servicePlan,
                   existingASE, availabilityRequest, currentStack, gi>>
    /\ UNCHANGED <<peer, remote, state>>

\* Lines 221-224: the availability request for a plan outside an isolated environment.
BareRequest(name) == [Name |-> <<name>>, IsFqdn |-> FALSE]

\* Lines 221-235: parse the plan ID, read the plan, see whether it is isolated.
CreateResolvePlan ==
    /\ op = "Create" /\ pc = "c_plan"
    /\ \E parseOk \in BOOLEAN, ans \in {"fail"} \cup HostingProfiles :
          IF ~parseOk
             THEN /\ Return("error")
                  /\ UNCHANGED <<calls, servicePlan, availabilityRequest>>
             ELSE /\ Issue("ServicePlanGet", IF ans = "fail" THEN "fail" ELSE "ok")
                  /\ IF ans = "fail"
                        THEN /\ Return("error")
                             /\ UNCHANGED <<servicePlan, availabilityRequest>>
                        ELSE /\ servicePlan' = ans
                             /\ availabilityRequest' = BareRequest(webApp.Name)
                             /\ pc' = IF ans = "nil" THEN "c_check" ELSE "c_ase"
                             /\ UNCHANGED result
    /\ UNCHANGED <<exists, op, webApp, changed, idSet, encoded, warnings,
                   existingASE, currentStack, gi>>
    /\ UNCHANGED <<peer, remote, state>>

\* Line 239
DefaultSuffix == <<"appserviceenvironment", "net">>

\* parse.AppServiceEnvironmentID: a pointer to the parsed ID, or nil and an error.
AppServiceEnvironmentID(id) ==
    IF id = "goodId"
       THEN [ptr |-> "id", HostingEnvironmentName |-> <<AseName>>, err |-> FALSE]
       ELSE [ptr |-> "nil", err |-> TRUE]

\* NameSuffix with the environment's own DNS suffix (lines 249-251) never used.
NameSuffix_IgnoreDnsSuffix(aseId, ans) ==
    Sprintf2(aseId.HostingEnvironmentName, DefaultSuffix)

\* Lines 242-251: the suffix after aseClient.Get answered.
NameSuffix(aseId, ans) ==
    IF ans.kind = "suffix" /\ ans.DNSSuffix # EmptyString
       THEN ans.DNSSuffix
       ELSE Sprintf2(aseId.HostingEnvironmentName, DefaultSuffix)

\* Lines 254-255
FqdnRequest(name, suffix) ==
    [Name |-> Sprintf3(<<name>>, <<PlanName>>, suffix), IsFqdn |-> TRUE]

\* Lines 235-256: the plan is on an isolated environment; find its DNS suffix.
CreateAseSuffix ==
    /\ op = "Create" /\ pc = "c_ase"
    /\ LET aseId == AppServiceEnvironmentID(servicePlan) IN
       CASE servicePlan = "noId" ->
               /\ availabilityRequest' = FqdnRequest(webApp.Name, DefaultSuffix)
               /\ pc' = "c_check"
               /\ UNCHANGED <<calls, result, warnings, existingASE>>
         [] servicePlan # "noId" /\ aseId.ptr = "nil" ->
               \* line 242 reads aseId.HostingEnvironmentName through the nil pointer
               /\ Return("panic")
               /\ UNCHANGED <<calls, warnings, existingASE, availabilityRequest>>
         [] servicePlan # "noId" /\ aseId.ptr # "nil" ->
               \E ans \in AseAnswers :
                  /\ Issue("AseGet", IF ans.kind = "fail" THEN "fail" ELSE "ok")
                  /\ existingASE' = ans
                  /\ warnings' = IF ans.kind = "fail" THEN warnings + 1 ELSE warnings
                  /\ availabilityRequest' =
                         FqdnRequest(webApp.Name, NameSuffix(aseId, ans))
                  /\ pc' = "c_check"
                  /\ UNCHANGED result
    /\ UNCHANGED <<exists, op, webApp, changed, idSet, encoded, servicePlan,
                   currentStack, gi>>
    /\ UNCHANGED <<peer, remote, state>>

\* CheckNameVerdict with the NameAvailable test (lines 262-264) left out.
CheckNameVerdict_ErrOnly(ans) == IF ans = "fail" THEN "error" ELSE "continue"

\* Lines 259-264: what Create does with the answer of the availability check.
CheckNameVerdict(ans) == IF ans = "available" THEN "continue" ELSE "error"

\* Answers of client.CheckNameAvailability (line 259): the name of a site
\* that exists is in use, any other name may be available or not; the call
\* may fail.
CheckNameAnswers(name) ==
    (IF name \in exists THEN {} ELSE {"available"}) \cup {"unavailable", "fail"}

\* Lines 258-264: name-availability check.
CreateCheckName ==
    /\ op = "Create" /\ pc = "c_check"
    /\ \E ans \in CheckNameAnswers(webApp.Name) :
          /\ Issue("CheckNameAvailability", ans)
          /\ IF CheckNameVerdict(ans) = "continue"
                THEN pc' = "c_site" /\ UNCHANGED result
                ELSE Return(CheckNameVerdict(ans))
    /\ UNCHANGED <<exists, op, webApp, changed, idSet, encoded, warnings, servicePlan,
                   existingASE, availabilityRequest, currentStack, gi>>
    /\ UNCHANGED <<peer, remote, state>>

\* Lines 266-292: expand the site configuration and issue the create call.
CreateSite ==
    /\ op = "Create" /\ pc = "c_site"
    /\ \E expandOk \in BOOLEAN, stack \in StackMarkers, out \in OkOrFail :
          IF ~expandOk
             THEN /\ Return("error")
                  /\ UNCHANGED <<calls, currentStack>>
             ELSE /\ currentStack' = stack
                  /\ Issue("CreateOrUpdate", out)
                  /\ IF out = "ok"
                        THEN pc' = "c_wait" /\ UNCHANGED result
                        ELSE Return("error")
    /\ UNCHANGED <<exists, op, webApp, changed, idSet, encoded, warnings, servicePlan,
                   existingASE, availabilityRequest, gi>>
    /\ UNCHANGED <<peer, remote, state>>

\* Lines 294-296: wait for the long-running create operation.  When the wait
\* fails the site may or may not have come into existence.
CreateWait ==
    /\ op = "Create" /\ pc = "c_wait"
    /\ \E out \in OkOrFail :
          /\ Issue("WaitForCompletionRef", out)
          /\ IF out = "ok"
                THEN /\ exists' = exists \cup {webApp.Name}
                     /\ pc' = "c_meta"
                     /\ UNCHANGED result
                ELSE /\ exists' \in {exists, exists \cup {webApp.Name}}
                     /\ Return("error")
    /\ UNCHANGED <<op, webApp, changed, idSet, encoded, warnings, servicePlan,
                   existingASE, availabilityRequest, currentStack, gi>>
    /\ UNCHANGED <<peer, remote, state>>

\* Lines 298-306: store the stack marker as site metadata, then record the ID.
CreateMetadata ==
    /\ op = "Create" /\ pc = "c_meta"
    /\ IF StackExtracted(currentStack)
          THEN \E out \in OkOrFail :
                  /\ Issue("UpdateMetadata", out)
                  /\ IF out = "ok"
                        THEN idSet' = TRUE /\ pc' = "c_group" /\ UNCHANGED result
                        ELSE Return("error") /\ UNCHANGED idSet
          ELSE idSet' = TRUE /\ pc' = "c_group" /\ UNCHANGED <<calls, result>>
    /\ UNCHANGED <<exists, op, webApp, changed, encoded, warnings, servicePlan,
                   existingASE, availabilityRequest, currentStack, gi>>
    /\ UNCHANGED <<peer, remote, state>>

\* CreateOrder with the app-settings block repeated.
CreateOrder_AppSettingsTwice ==
    <<"app_settings", "app_settings", "auth_settings", "logs", "backup",
      "storage_account", "connection_string">>

\* CreateOrder with the backup block moved in front of the logs block.
CreateOrder_BackupBeforeLogs ==
    <<"app_settings", "auth_settings", "backup", "logs", "storage_account",
      "connection_string">>

\* Lines 308-350: the order in which Create applies the sub-resource groups.
CreateOrder == <<"app_settings", "auth_settings", "logs", "backup", "storage_account",
                 "connection_string">>

\* Lines 308-352: apply the next group if its expanded form is non-empty.
CreateApplyGroup ==
    /\ op = "Create" /\ pc = "c_group"
    /\ LET g == CreateOrder[gi]
           next == IF gi = Len(CreateOrder)
                      THEN Return("nil") /\ UNCHANGED gi
                      ELSE gi' = gi + 1 /\ UNCHANGED <<pc, result>>
       IN IF ExpandedNonEmpty(g)
             THEN \E out \in OkOrFail :
                     /\ Issue(GroupUpdateApi(g), out)
                     /\ IF out = "ok" THEN next ELSE Return("error") /\ UNCHANGED gi
             ELSE next /\ UNCHANGED calls
    /\ UNCHANGED <<exists, op, webApp, changed, idSet, encoded, warnings, servicePlan,
                   existingASE, availabilityRequest, currentStack>>
    /\ UNCHANGED <<peer, remote, state>>

-----------------------------------------------------------------------------
(* Read                                                                    *)

\* Lines 359-367: Read is entered and the ID of the state is parsed.
ReadStart ==
    /\ Idle
    /\ \E name \in SiteNames, parseOk \in BOOLEAN :
          /\ op' = "Read"
          /\ webApp' = [Name |-> name, groups |-> {}]
          /\ changed' = {}
          /\ FreshLocals
          /\ pc' = IF parseOk THEN "r_get" ELSE "done"
          /\ result' = IF parseOk THEN "running" ELSE "error"
    /\ UNCHANGED exists
    /\ UNCHANGED <<peer, remote, state>>

\* ReadGetVerdict without the NotFound test (lines 370-372): every error is returned.
ReadGetVerdict_NotFoundIsError(resp) ==
    IF resp \in {"fail", "notFound"}
       THEN "error"
       ELSE IF resp = "foundNoProps" THEN "error" ELSE "continue"

\* Lines 369-378: what Read does with the answer of the primary get.
\* metadata.MarkAsGone removes the resource from state; returning it is "gone".
ReadGetVerdict(resp) ==
    IF resp \in {"fail", "notFound"}
       THEN IF resp = "notFound" THEN "gone" ELSE "error"
       ELSE IF resp = "foundNoProps" THEN "error" ELSE "continue"

\* Lines 368-378: the primary get.  A site that exists may be returned with or
\* without its SiteProperties.
ReadGet ==
    /\ op = "Read" /\ pc = "r_get"
    /\ \E resp \in GetAnswers(webApp.Name)
                     \cup (IF webApp.Name \in exists THEN {"foundNoProps"} ELSE {}) :
          /\ Issue("Get", resp)
          /\ IF ReadGetVerdict(resp) = "continue"
                THEN pc' = "r_aux" /\ UNCHANGED result
                ELSE Return(ReadGetVerdict(resp))
    /\ UNCHANGED <<exists, op, webApp, changed, idSet, encoded, warnings, servicePlan,
                   existingASE, availabilityRequest, currentStack, gi>>
    /\ UNCHANGED <<peer, remote, state>>

\* Lines 380-434: the auxiliary reads, in the order Read issues them.
ReadOrder == <<"GetConfiguration", "GetAuthSettings", "GetBackupConfiguration",
               "GetDiagnosticLogsConfiguration", "ListApplicationSettings",
               "ListAzureStorageAccounts", "ListConnectionStrings",
               "ListPublishingCredentials", "CredentialsWaitForCompletionRef",
               "CredentialsResult", "ListMetadata">>

\* Answers of an auxiliary read: success, 404, or another failure.
AuxAnswers == {"ok", "notFound", "fail"}

\* AuxReadVerdict with every error of the backup read tolerated.
AuxReadVerdict_BackupAnyError(api, ans) ==
    IF ans = "ok" THEN "continue"
    ELSE IF api = "GetBackupConfiguration" THEN "continue"
    ELSE "error"

\* AuxReadVerdict with the 404 tolerance applied to every auxiliary read.
AuxReadVerdict_AnyNotFound(api, ans) ==
    IF ans = "ok" THEN "continue"
    ELSE IF ans = "notFound" THEN "continue"
    ELSE "error"

\* Lines 381-434: an auxiliary read that fails is fatal, except that the
\* backup read may answer 404 (lines 391-396).
AuxReadVerdict(api, ans) ==
    IF ans = "ok" THEN "continue"
    ELSE IF api = "GetBackupConfiguration" /\ ans = "notFound" THEN "continue"
    ELSE "error"

\* Lines 380-434: issue the next auxiliary read.
ReadAux ==
    /\ op = "Read" /\ pc = "r_aux"
    /\ \E ans \in AuxAnswers :
          /\ Issue(ReadOrder[gi], ans)
          /\ IF AuxReadVerdict(ReadOrder[gi], ans) = "continue"
                THEN /\ UNCHANGED result
                     /\ IF gi = Len(ReadOrder)
                           THEN pc' = "r_encode" /\ UNCHANGED gi
                           ELSE gi' = gi + 1 /\ UNCHANGED pc
                ELSE Return("error") /\ UNCHANGED gi
    /\ UNCHANGED <<exists, op, webApp, changed, idSet, encoded, warnings, servicePlan,
                   existingASE, availabilityRequest, currentStack>>
    /\ UNCHANGED <<peer, remote, state>>

\* Lines 436-526: merge everything into one state and encode it.
ReadEncode ==
    /\ op = "Read" /\ pc = "r_encode"
    /\ encoded' = TRUE
    /\ Return("nil")
    /\ UNCHANGED <<exists, op, webApp, changed, calls, idSet, warnings, servicePlan,
                   existingASE, availabilityRequest, currentStack, gi>>
    /\ UNCHANGED <<peer, remote, state>>

-----------------------------------------------------------------------------
(* Delete                                                                  *)

\* Lines 531-541: Delete is entered and the ID of the state is parsed.
DeleteStart ==
    /\ Idle
    /\ \E name \in SiteNames, parseOk \in BOOLEAN :
          /\ op' = "Delete"
          /\ webApp' = [Name |-> name, groups |-> {}]
          /\ changed' = {}
          /\ FreshLocals
          /\ pc' = IF parseOk THEN "d_delete" ELSE "done"
          /\ result' = IF parseOk THEN "running" ELSE "error"
    /\ UNCHANGED exists
    /\ UNCHANGED <<peer, remote, state>>

\* DeleteRequest with the metrics history kept.
DeleteRequest_KeepMetrics(out) ==
    [api |-> "Delete", outcome |-> out, deleteMetrics |-> FALSE,
     deleteEmptyServerFarm |-> FALSE]

\* Lines 543-545: the delete call with its two fixed options.
DeleteRequest(out) ==
    [api |-> "Delete", outcome |-> out, deleteMetrics |-> TRUE,
     deleteEmptyServerFarm |-> FALSE]

\* Lines 543-548: the single delete call.
DeleteCall ==
    /\ op = "Delete" /\ pc = "d_delete"
    /\ \E out \in OkOrFail :
          /\ calls' = Append(calls, DeleteRequest(out))
          /\ IF out = "ok"
                THEN exists' = exists \ {webApp.Name} /\ Return("nil")
                ELSE exists' \in {exists, exists \ {webApp.Name}} /\ Return("error")
    /\ UNCHANGED <<op, webApp, changed, idSet, encoded, warnings, servicePlan,
                   existingASE, availabilityRequest, currentStack, gi>>
    /\ UNCHANGED <<peer, remote, state>>

-----------------------------------------------------------------------------
(* Update                                                                  *)

\* Lines 557-573: Update is entered, the ID is parsed and the model decoded;
\* the plugin host knows which fields changed.
UpdateStart ==
    /\ Idle
    /\ \E name \in SiteNames, groups \in SUBSET Groups, chg \in SUBSET Groups,
          startOk \in BOOLEAN :
          /\ op' = "Update"
          /\ webApp' = [Name |-> name, groups |-> groups]
          /\ changed' = chg
          /\ FreshLocals
          /\ pc' = IF startOk THEN "u_site" ELSE "done"
          /\ result' = IF startOk THEN "running" ELSE "error"
    /\ UNCHANGED exists
    /\ UNCHANGED <<peer, remote, state>>

\* Lines 575-598: build the site, expand its configuration, issue the update.
UpdateSite ==
    /\ op = "Update" /\ pc = "u_site"
    /\ \E expandOk \in BOOLEAN, stack \in StackMarkers, out \in OkOrFail :
          IF ~expandOk
             THEN /\ Return("error")
                  /\ UNCHANGED <<calls, currentStack>>
             ELSE /\ currentStack' = stack
                  /\ Issue("CreateOrUpdate", out)
                  /\ IF out = "ok"
                        THEN pc' = "u_wait" /\ UNCHANGED result
                        ELSE Return("error")
    /\ UNCHANGED <<exists, op, webApp, changed, idSet, encoded, warnings, servicePlan,
                   existingASE, availabilityRequest, gi>>
    /\ UNCHANGED <<peer, remote, state>>

\* UpdateWait with the error of the wait (lines 599-601) ignored.
UpdateWait_IgnoreError ==
    /\ op = "Update" /\ pc = "u_wait"
    /\ \E out \in OkOrFail :
          /\ Issue("WaitForCompletionRef", out)
          /\ exists' \in (IF out = "ok" THEN {exists \cup {webApp.Name}}
                                        ELSE {exists, exists \cup {webApp.Name}})
          /\ pc' = "u_meta"
          /\ UNCHANGED result
    /\ UNCHANGED <<op, webApp, changed, idSet, encoded, warnings, servicePlan,
                   existingASE, availabilityRequest, currentStack, gi>>
    /\ UNCHANGED <<peer, remote, state>>

\* Lines 599-601: wait for the long-running update operation.
UpdateWait ==
    /\ op = "Update" /\ pc = "u_wait"
    /\ \E out \in OkOrFail :
          /\ Issue("WaitForCompletionRef", out)
          /\ IF out = "ok"
                THEN /\ exists' = exists \cup {webApp.Name}
                     /\ pc' = "u_meta"
                     /\ UNCHANGED result
                ELSE /\ exists' \in {exists, exists \cup {webApp.Name}}
                     /\ Return("error")
    /\ UNCHANGED <<op, webApp, changed, idSet, encoded, warnings, servicePlan,
                   existingASE, availabilityRequest, currentStack, gi>>
    /\ UNCHANGED <<peer, remote, state>>

\* Lines 603-609: store the stack marker as site metadata.
UpdateMetadata ==
    /\ op = "Update" /\ pc = "u_meta"
    /\ IF StackExtracted(currentStack)
          THEN \E out \in OkOrFail :
                  /\ Issue("UpdateMetadata", out)
                  /\ IF out = "ok"
                        THEN pc' = "u_group" /\ UNCHANGED result
                        ELSE Return("error")
          ELSE pc' = "u_group" /\ UNCHANGED <<calls, result>>
    /\ UNCHANGED <<exists, op, webApp, changed, idSet, encoded, warnings, servicePlan,
                   existingASE, availabilityRequest, currentStack, gi>>
    /\ UNCHANGED <<peer, remote, state>>

\* UpdateOrder with the logs block in front of the app-settings block.
UpdateOrder_LogsFirst == <<"logs", "app_settings", "connection_string", "auth_settings",
                           "backup", "storage_account">>

\* Lines 611-658: the order in which Update visits the sub-resource groups.
UpdateOrder == <<"app_settings", "connection_string", "auth_settings", "backup", "logs",
                 "storage_account">>

\* HasChange with the logs block guarded by the app_settings field.
HasChange_LogsFollowsAppSettings(g) ==
    IF g = "logs" THEN "app_settings" \in changed ELSE g \in changed

\* metadata.ResourceData.HasChange(field), lines 612, 619, 626, 633, 646, 653
HasChange(g) == g \in changed

\* BackupUpdateApi without the empty branch (lines 635-638).
BackupUpdateApi_AlwaysUpdate == "UpdateBackupConfiguration"

\* Lines 634-643: an empty desired backup configuration is deleted, not updated.
BackupUpdateApi ==
    IF ~ExpandedNonEmpty("backup")
       THEN "DeleteBackupConfiguration"
       ELSE "UpdateBackupConfiguration"

\* The call Update issues for a group whose field changed.
UpdateGroupApi(g) == IF g = "backup" THEN BackupUpdateApi ELSE GroupUpdateApi(g)

\* Lines 611-660: re-apply the next group if its field changed.
UpdateApplyGroup ==
    /\ op = "Update" /\ pc = "u_group"
    /\ LET g == UpdateOrder[gi]
           next == IF gi = Len(UpdateOrder)
                      THEN Return("nil") /\ UNCHANGED gi
                      ELSE gi' = gi + 1 /\ UNCHANGED <<pc, result>>
       IN IF HasChange(g)
             THEN \E out \in OkOrFail :
                     /\ Issue(UpdateGroupApi(g), out)
                     /\ IF out = "ok" THEN next ELSE Return("error") /\ UNCHANGED gi
             ELSE next /\ UNCHANGED calls
    /\ UNCHANGED <<exists, op, webApp, changed, idSet, encoded, warnings, servicePlan,
                   existingASE, availabilityRequest, currentStack>>
    /\ UNCHANGED <<peer, remote, state>>

-----------------------------------------------------------------------------
(* Read of the Linux Web App data source                                   *)

\* Lines 156-168: the data source's Read is entered and the configuration is
\* decoded; the ID is built from the subscription, resource group and name.
DataSourceReadStart ==
    /\ Idle
    /\ \E name \in SiteNames, decodeOk \in BOOLEAN :
          /\ op' = "DataSourceRead"
          /\ webApp' = [Name |-> name, groups |-> {}]
          /\ changed' = {}
          /\ FreshLocals
          /\ pc' = IF decodeOk THEN "ds_get" ELSE "done"
          /\ result' = IF decodeOk THEN "running" ELSE "error"
    /\ UNCHANGED exists
    /\ UNCHANGED <<peer, remote, state>>

\* DataSourceGetVerdict with the missing site marked as gone, as the
\* resource's Read does.
DataSourceGetVerdict_Gone(resp) ==
    IF resp \in {"fail", "notFound"}
       THEN IF resp = "notFound" THEN "gone" ELSE "error"
       ELSE "continue"

\* Lines 171-176: both the 404 and any other failure of the primary get are
\* returned as errors ("... not found", "retreiving ...").
DataSourceGetVerdict(resp) ==
    IF resp \in {"fail", "notFound"}
       THEN IF resp = "notFound" THEN "error" ELSE "error"
       ELSE "continue"

\* Lines 170-176: the primary get.  A site that exists may be returned
\* without SiteProperties ("foundNoProps") or with properties of which a
\* flag is missing ("foundNilFlag").
DataSourceReadGet ==
    /\ op = "DataSourceRead" /\ pc = "ds_get"
    /\ \E resp \in GetAnswers(webApp.Name)
                     \cup (IF webApp.Name \in exists
                              THEN {"foundNoProps", "foundNilFlag"} ELSE {}) :
          /\ Issue("Get", resp)
          /\ IF DataSourceGetVerdict(resp) = "continue"
                THEN pc' = "ds_aux" /\ UNCHANGED result
                ELSE Return(DataSourceGetVerdict(resp))
    /\ UNCHANGED <<exists, op, webApp, changed, idSet, encoded, warnings, servicePlan,
                   existingASE, availabilityRequest, currentStack, gi>>
    /\ UNCHANGED <<peer, remote, state>>

\* Lines 178-226: the auxiliary reads of the data source, in order.
DataSourceReadOrder ==
    <<"GetConfiguration", "GetAuthSettings", "GetBackupConfiguration",
      "GetDiagnosticLogsConfiguration", "ListApplicationSettings",
      "ListAzureStorageAccounts", "ListConnectionStrings",
      "ListPublishingCredentials", "CredentialsWaitForCompletionRef",
      "CredentialsResult">>

\* Lines 178-226: every failing auxiliary read returns an error, except that
\* the backup read may answer 404 (lines 189-193).
DataSourceAuxVerdict(api, ans) ==
    IF ans = "ok" THEN "continue"
    ELSE IF api = "GetBackupConfiguration" /\ ans = "notFound" THEN "continue"
    ELSE "error"

\* Lines 178-226: issue the next auxiliary read.
DataSourceReadAux ==
    /\ op = "DataSourceRead" /\ pc = "ds_aux"
    /\ \E ans \in AuxAnswers :
          /\ Issue(DataSourceReadOrder[gi], ans)
          /\ IF DataSourceAuxVerdict(DataSourceReadOrder[gi], ans) = "continue"
                THEN /\ UNCHANGED result
                     /\ IF gi = Len(DataSourceReadOrder)
                           THEN pc' = "ds_encode" /\ UNCHANGED gi
                           ELSE gi' = gi + 1 /\ UNCHANGED pc
                ELSE Return("error") /\ UNCHANGED gi
    /\ UNCHANGED <<exists, op, webApp, changed, idSet, encoded, warnings, servicePlan,
                   existingASE, availabilityRequest, currentStack>>
    /\ UNCHANGED <<peer, remote, state>>

\* Lines 228-265: the model is filled in, then the ID is set and the model
\* encoded.  Lines 233, 234, 238 and 239 dereference the flags of the site
\* properties unchecked: a missing flag panics before the ID is set.
DataSourceReadEncode ==
    /\ op = "DataSourceRead" /\ pc = "ds_encode"
    /\ IF calls[1].outcome = "foundNilFlag"
          THEN Return("panic") /\ UNCHANGED <<idSet, encoded>>
          ELSE idSet' = TRUE /\ encoded' = TRUE /\ Return("nil")
    /\ UNCHANGED <<exists, op, webApp, changed, calls, warnings, servicePlan,
                   existingASE, availabilityRequest, currentStack, gi>>
    /\ UNCHANGED <<peer, remote, state>>

-----------------------------------------------------------------------------
(* Plugin host                                                             *)

\* The driver function has returned: the host takes the result and the
\* invocation's locals are gone.  Nothing is kept between invocations but
\* the remote system's state.
Finish ==
    /\ pc = "done"
    /\ op' = "none"
    /\ pc' = "idle"
    /\ webApp' = [Name |-> AllSiteNames[1], groups |-> {}]
    /\ changed' = {}
    /\ result' = "none"
    /\ FreshLocals
    /\ UNCHANGED exists
    /\ UNCHANGED <<peer, remote, state>>

-----------------------------------------------------------------------------

Init ==
    /\ exists = {}
    /\ op = "none"
    /\ pc = "idle"
    /\ webApp = [Name |-> AllSiteNames[1], groups |-> {}]
    /\ changed = {}
    /\ calls = <<>>
    /\ result = "none"
    /\ idSet = FALSE
    /\ encoded = FALSE
    /\ warnings = 0
    /\ servicePlan = "nil"
    /\ existingASE = NoAse
    /\ availabilityRequest = NoRequest
    /\ currentStack = "nil"
    /\ gi = 1
    /\ peer = NoPeer
    /\ remote = NotFollowed
    /\ state = NoState

Next ==
    \/ CreateStart
    \/ CreateExistenceCheck
    \/ CreateResolvePlan
    \/ CreateAseSuffix
    \/ CreateCheckName
    \/ CreateSite
    \/ CreateWait
    \/ CreateMetadata
    \/ CreateApplyGroup
    \/ ReadStart
    \/ ReadGet
    \/ ReadAux
    \/ ReadEncode
    \/ DeleteStart
    \/ DeleteCall
    \/ UpdateStart
    \/ UpdateSite
    \/ UpdateWait
    \/ UpdateMetadata
    \/ UpdateApplyGroup
    \/ DataSourceReadStart
    \/ DataSourceReadGet
    \/ DataSourceReadAux
    \/ DataSourceReadEncode
    \/ Finish

Spec == Init /\ [][Next]_vars

-----------------------------------------------------------------------------
(* Two Create invocations for one ID                                       *)
(*                                                                         *)
(* The plugin host may run the Create of two resource instances at once    *)
(* and the drivers take no lock.  The invocation taking steps has its      *)
(* locals in the variables; the other one's locals are parked in peer.     *)

\* Sub-resource groups the two configurations may set.
ConcurrentGroupSets == {{}, {"app_settings"}}

\* Lines 197-210 of an invocation: the configuration is decoded and the ID
\* built; its first remote call is still to come.
Entered(n, groups) ==
    [NoPeer EXCEPT !.id = n, !.pc = "c_get", !.result = "running",
                   !.webApp = [Name |-> AllSiteNames[1], groups |-> groups]]

\* Both invocations are entered for the same ID and the site does not exist.
InitConcurrent ==
    /\ exists = {}
    /\ op = "Create"
    /\ pc = "c_get"
    /\ \E groups \in ConcurrentGroupSets : webApp = [Name |-> AllSiteNames[1], groups |-> groups]
    /\ changed = {}
    /\ calls = <<>>
    /\ result = "running"
    /\ idSet = FALSE
    /\ encoded = FALSE
    /\ warnings = 0
    /\ servicePlan = "nil"
    /\ existingASE = NoAse
    /\ availabilityRequest = NoRequest
    /\ currentStack = "nil"
    /\ gi = 1
    /\ \E groups \in ConcurrentGroupSets : peer = Entered(2, groups)
    /\ remote = NotFollowed
    /\ state = NoState

\* The invocation that is taking steps: 1 or 2.
Running == 3 - peer.id

\* The host's scheduler lets the other invocation run: the locals of the
\* two invocations change places.  The remote system is shared.
ContextSwitch ==
    /\ peer.id # 0
    /\ peer.pc # "done"
    /\ peer' = [id |-> Running, pc |-> pc, webApp |-> webApp, calls |-> calls,
                result |-> result, idSet |-> idSet, warnings |-> warnings,
                servicePlan |-> servicePlan, existingASE |-> existingASE,
                availabilityRequest |-> availabilityRequest,
                currentStack |-> currentStack, gi |-> gi]
    /\ pc' = peer.pc
    /\ webApp' = peer.webApp
    /\ calls' = peer.calls
    /\ result' = peer.result
    /\ idSet' = peer.idSet
    /\ warnings' = peer.warnings
    /\ servicePlan' = peer.servicePlan
    /\ existingASE' = peer.existingASE
    /\ availabilityRequest' = peer.availabilityRequest
    /\ currentStack' = peer.currentStack
    /\ gi' = peer.gi
    /\ UNCHANGED <<exists, op, changed, encoded, remote, state>>

NextConcurrent ==
    \/ CreateExistenceCheck
    \/ CreateResolvePlan
    \/ CreateAseSuffix
    \/ CreateCheckName
    \/ CreateSite
    \/ CreateWait
    \/ CreateMetadata
    \/ CreateApplyGroup
    \/ ContextSwitch

SpecConcurrent == InitConcurrent /\ [][NextConcurrent]_vars

-----------------------------------------------------------------------------
(* Create followed by Read: what is sent, stored and read back             *)
(*                                                                         *)
(* The remote system stores exactly what it is sent and every remote call  *)
(* succeeds.  webApp is the configuration the host hands to Create; a      *)
(* location is the sequence of its characters.  A Go pointer is a sequence *)
(* of at most one element, the empty sequence being nil.                   *)

NilPtr == <<>>

\* utils.String, utils.Bool: a pointer to the value.
Ptr(v) == <<v>>

ResourceGroupName == "rg1"

SubscriptionId == "sub1"

\* Locations: "westus", "WestUS", "West US".
Locations == { <<"w", "e", "s", "t", "u", "s">>,
               <<"W", "e", "s", "t", "U", "S">>,
               <<"W", "e", "s", "t", " ", "U", "S">> }

ClientCertModes == {"", "Required"}

\* tags: a map from keys to values.
TagMaps == { <<>>, [k \in {"env"} |-> "prod"] }

\* identity blocks: none, or one.
IdentityBlocks == { <<>>, <<"SystemAssigned">> }

\* The value of a group's block in the configuration: <<>> when it is not
\* set.
GroupSetting(groups, g) == IF g \in groups THEN <<g, "configured">> ELSE <<>>

\* The sets of groups a configuration sets: none, each one alone, all.
GroupFamilies == {{}} \cup {{g} : g \in Groups} \cup {Groups}

\* The configurations handed to Create.
Configurations ==
    [ Name : SiteNames,
      ResourceGroup : {ResourceGroupName},
      Location : Locations,
      ServicePlanId : {PlanName},
      Enabled : BOOLEAN,
      HttpsOnly : BOOLEAN,
      ClientAffinityEnabled : BOOLEAN,
      ClientCertEnabled : BOOLEAN,
      ClientCertMode : ClientCertModes,
      Tags : TagMaps,
      Identity : IdentityBlocks,
      SiteConfig : [current_stack : StackMarkers],
      groups : GroupFamilies ]

\* parse.NewWebAppID(...).ID(): the ID string, as its segments.
NewWebAppID(subscriptionId, resourceGroup, name) ==
    <<"subscriptions", subscriptionId, "resourceGroups", resourceGroup,
      "providers", "Microsoft.Web", "sites", name>>

\* parse.WebAppID: the segments of an ID string read back.
WebAppID(id) == [SubscriptionId |-> id[2], ResourceGroup |-> id[4], SiteName |-> id[8]]

\* strings.ToLower on one character.
ToLower(c) == CASE c = "W" -> "w" [] c = "U" -> "u" [] c = "S" -> "s" [] OTHER -> c

\* location.Normalize: lower case, spaces removed.
Normalize(str) ==
    LET lower == [i \in DOMAIN str |-> ToLower(str[i])]
    IN SelectSeq(lower, LAMBDA c : c # " ")

\* location.NormalizeNilable: "" for nil, else the normalised string.
NormalizeNilable(p) == IF p = NilPtr THEN <<>> ELSE Normalize(p[1])

\* tags.FromTypedObject: map[string]string to map[string]*string.
TagsFromTypedObject(t) == [k \in DOMAIN t |-> Ptr(t[k])]

\* tags.ToTypedObject: map[string]*string to map[string]string.
TagsToTypedObject(t) == [k \in DOMAIN t |-> IF t[k] = NilPtr THEN "" ELSE t[k][1]]

\* helpers.Expand<Group> and helpers.ExpandIdentity: the remote form of a
\* block; its properties are nil when the block is not set.
Expand(block) == IF block = <<>> THEN [properties |-> NilPtr]
                                  ELSE [properties |-> Ptr(block)]

\* helpers.Flatten<Group> and helpers.FlattenIdentity: the block of a remote
\* form; nil when it has no properties.
Flatten(form) == IF form.properties = NilPtr THEN <<>> ELSE form.properties[1]

\* helpers.ExpandSiteConfigWindows: the remote site configuration and, apart
\* from it, the current stack.
ExpandSiteConfigWindows(siteConfig) ==
    [siteConfig |-> [windowsConfigured |-> TRUE],
     currentStack |-> siteConfig.current_stack]

\* helpers.FlattenSiteConfigWindows: the site_config block of a remote site
\* configuration and a current stack.
FlattenSiteConfigWindows(siteConfig, stack) == [current_stack |-> stack]

\* SiteEnvelope with the values of enabled and https_only exchanged.
SiteEnvelope_FlagsExchanged(m, siteConfig) ==
    [ Location |-> Ptr(m.Location),
      Tags |-> TagsFromTypedObject(m.Tags),
      Identity |-> Expand(m.Identity),
      SiteProperties |->
          [ ServerFarmID |-> Ptr(m.ServicePlanId),
            Enabled |-> Ptr(m.HttpsOnly),
            HTTPSOnly |-> Ptr(m.Enabled),
            SiteConfig |-> siteConfig,
            ClientAffinityEnabled |-> Ptr(m.ClientAffinityEnabled),
            ClientCertEnabled |-> Ptr(m.ClientCertEnabled),
            ClientCertMode |-> m.ClientCertMode ] ]

\* Lines 271-287: the site Create sends.
SiteEnvelope(m, siteConfig) ==
    [ Location |-> Ptr(m.Location),
      Tags |-> TagsFromTypedObject(m.Tags),
      Identity |-> Expand(m.Identity),
      SiteProperties |->
          [ ServerFarmID |-> Ptr(m.ServicePlanId),
            Enabled |-> Ptr(m.Enabled),
            HTTPSOnly |-> Ptr(m.HttpsOnly),
            SiteConfig |-> siteConfig,
            ClientAffinityEnabled |-> Ptr(m.ClientAffinityEnabled),
            ClientCertEnabled |-> Ptr(m.ClientCertEnabled),
            ClientCertMode |-> m.ClientCertMode ] ]

\* A remote system that holds no site.
EmptyRemote ==
    [followed |-> TRUE, site |-> NilPtr, metadata |-> <<>>,
     settings |-> [g \in Groups |-> NilPtr]]

\* What the remote system answers for a group: what was stored, or an
\* object without properties when nothing was (404 for the backup
\* configuration, which Read takes as no backup, lines 391-396).
StoredGroup(g) ==
    IF remote.settings[g] = NilPtr THEN [properties |-> NilPtr]
                                   ELSE remote.settings[g][1]

\* Lines 436-524: the model Read builds from the answers.
ReadState(id, site, metadata) ==
    LET props == site.SiteProperties
        stack == IF "CURRENT_STACK" \in DOMAIN metadata
                    THEN metadata["CURRENT_STACK"][1] ELSE ""
    IN [ Name |-> id.SiteName,
         ResourceGroup |-> id.ResourceGroup,
         Location |-> NormalizeNilable(site.Location),
         Tags |-> TagsToTypedObject(site.Tags),
         ServicePlanId |-> IF props.ServerFarmID # NilPtr
                              THEN props.ServerFarmID[1] ELSE "",
         ClientAffinityEnabled |-> IF props.ClientAffinityEnabled # NilPtr
                                      THEN props.ClientAffinityEnabled[1] ELSE FALSE,
         ClientCertEnabled |-> IF props.ClientCertEnabled # NilPtr
                                  THEN props.ClientCertEnabled[1] ELSE FALSE,
         ClientCertMode |-> IF props.ClientCertMode # ""
                               THEN props.ClientCertMode ELSE "",
         Enabled |-> IF props.Enabled # NilPtr THEN props.Enabled[1] ELSE FALSE,
         HttpsOnly |-> IF props.HTTPSOnly # NilPtr THEN props.HTTPSOnly[1] ELSE FALSE,
         Identity |-> Flatten(site.Identity),
         SiteConfig |-> FlattenSiteConfigWindows(props.SiteConfig, stack),
         settings |-> [g \in Groups |-> Flatten(StoredGroup(g))] ]

\* Lines 197-264: Create has decoded a configuration and found the ID free
\* and the name available; the remote system holds no site.
InitRoundTrip ==
    /\ exists = {}
    /\ op = "Create"
    /\ pc = "rt_site"
    /\ webApp \in Configurations
    /\ changed = {}
    /\ calls = <<>>
    /\ result = "running"
    /\ idSet = FALSE
    /\ encoded = FALSE
    /\ warnings = 0
    /\ servicePlan = "nil"
    /\ existingASE = NoAse
    /\ availabilityRequest = BareRequest(webApp.Name)
    /\ currentStack = "nil"
    /\ gi = 1
    /\ peer = NoPeer
    /\ remote = EmptyRemote
    /\ state = NoState

\* Lines 266-296: the site configuration is expanded, the site sent and
\* stored.
RoundTripCreateSite ==
    /\ op = "Create" /\ pc = "rt_site"
    /\ LET expanded == ExpandSiteConfigWindows(webApp.SiteConfig)
       IN /\ currentStack' = expanded.currentStack
          /\ remote' = [remote EXCEPT
                           !.site = Ptr(SiteEnvelope(webApp, expanded.siteConfig))]
    /\ calls' = calls \o <<Call("CreateOrUpdate", "ok"), Call("WaitForCompletionRef", "ok")>>
    /\ exists' = exists \cup {webApp.Name}
    /\ pc' = "rt_meta"
    /\ UNCHANGED <<op, webApp, changed, result, idSet, encoded, warnings, servicePlan,
                   existingASE, availabilityRequest, gi, peer, state>>

\* Lines 298-306: the stack marker is stored as metadata and the ID recorded.
RoundTripMetadata ==
    /\ op = "Create" /\ pc = "rt_meta"
    /\ IF StackExtracted(currentStack)
          THEN /\ Issue("UpdateMetadata", "ok")
               /\ remote' = [remote EXCEPT
                                !.metadata = [k \in {"CURRENT_STACK"} |-> Ptr(currentStack)]]
          ELSE UNCHANGED <<calls, remote>>
    /\ idSet' = TRUE
    /\ state' = [state EXCEPT
                    !.id = NewWebAppID(SubscriptionId, webApp.ResourceGroup, webApp.Name)]
    /\ pc' = "rt_group"
    /\ UNCHANGED <<exists, op, webApp, changed, result, encoded, warnings, servicePlan,
                   existingASE, availabilityRequest, currentStack, gi, peer>>

\* Lines 308-352: the next group is expanded, and sent and stored if its
\* expanded form has properties.
RoundTripApplyGroup ==
    /\ op = "Create" /\ pc = "rt_group"
    /\ LET g == CreateOrder[gi]
           form == Expand(GroupSetting(webApp.groups, g))
       IN IF form.properties # NilPtr
             THEN /\ Issue(GroupUpdateApi(g), "ok")
                  /\ remote' = [remote EXCEPT !.settings[g] = Ptr(form)]
             ELSE UNCHANGED <<calls, remote>>
    /\ IF gi = Len(CreateOrder)
          THEN Return("nil") /\ UNCHANGED gi
          ELSE gi' = gi + 1 /\ UNCHANGED <<pc, result>>
    /\ UNCHANGED <<exists, op, webApp, changed, idSet, encoded, warnings, servicePlan,
                   existingASE, availabilityRequest, currentStack, peer, state>>

\* Lines 359-367: Create has returned nil; the host calls Read with the
\* state Create left, that is, the ID.
RoundTripReadStart ==
    /\ op = "Create" /\ pc = "done" /\ result = "nil"
    /\ op' = "Read"
    /\ pc' = "rt_read"
    /\ result' = "running"
    /\ FreshLocals
    /\ UNCHANGED <<exists, webApp, changed, peer, remote, state>>

\* The answers Read gets from the remote system, all successful but the
\* backup read when no backup configuration was stored.
RoundTripReadCalls ==
    <<Call("Get", "found")>> \o
    [i \in DOMAIN ReadOrder |->
        Call(ReadOrder[i],
             IF ReadOrder[i] = "GetBackupConfiguration" /\ remote.settings["backup"] = NilPtr
                THEN "notFound" ELSE "ok")]

\* Lines 364-526: the ID is parsed, the site and its groups are read, and
\* the model built from them is encoded.
RoundTripRead ==
    /\ op = "Read" /\ pc = "rt_read"
    /\ calls' = RoundTripReadCalls
    /\ state' = [id |-> state.id, encoded |-> TRUE,
                 model |-> ReadState(WebAppID(state.id), remote.site[1], remote.metadata)]
    /\ encoded' = TRUE
    /\ Return("nil")
    /\ UNCHANGED <<exists, op, webApp, changed, idSet, warnings, servicePlan,
                   existingASE, availabilityRequest, currentStack, gi, peer, remote>>

NextRoundTrip ==
    \/ RoundTripCreateSite
    \/ RoundTripMetadata
    \/ RoundTripApplyGroup
    \/ RoundTripReadStart
    \/ RoundTripRead

SpecRoundTrip == InitRoundTrip /\ [][NextRoundTrip]_vars

-----------------------------------------------------------------------------
(* Vocabulary of the properties                                            *)

\* Positions in the call log at which an endpoint was called.
Positions(api) == {i \in DOMAIN calls : calls[i].api = api}

Issued(api) == Positions(api) # {}

\* The endpoints that write a sub-resource group.
GroupApis(g) ==
    CASE g = "app_settings"      -> {"UpdateApplicationSettings"}
      [] g = "auth_settings"     -> {"UpdateAuthSettings"}
      [] g = "logs"              -> {"UpdateDiagnosticLogsConfig"}
      [] g = "backup"            -> {"UpdateBackupConfiguration", "DeleteBackupConfiguration"}
      [] g = "storage_account"   -> {"UpdateAzureStorageAccounts"}
      [] g = "connection_string" -> {"UpdateConnectionStrings"}

SubResourceApis == UNION {GroupApis(g) : g \in Groups}

IsSubResourceCall(c) == c.api \in SubResourceApis

\* The sub-resource calls of this invocation, in the order they were issued.
SubResourceCalls == SelectSeq(calls, IsSubResourceCall)

\* Number of calls this invocation made to the endpoints of a group.
GroupCallCount(g) == Cardinality({i \in DOMAIN calls : calls[i].api \in GroupApis(g)})

-----------------------------------------------------------------------------
(* C1: whenever an Update has issued both the application-settings update  *)
(* and the logs-configuration update, the application-settings call was    *)
(* issued first and had returned successfully.                             *)
C1_AppSettingsBeforeLogs ==
    op = "Update" =>
        \A i \in Positions("UpdateDiagnosticLogsConfig") :
            \A j \in Positions("UpdateApplicationSettings") :
                j < i /\ calls[j].outcome = "ok"

C1_Witness ==
    /\ op = "Update"
    /\ Issued("UpdateApplicationSettings")
    /\ Issued("UpdateDiagnosticLogsConfig")

(* C2: a Create whose existence check finds the site on the remote system  *)
(* returns the requires-import error, has issued no call but that get, and *)
(* has not recorded the ID.                                                *)
C2_ExistingRequiresImport ==
    (op = "Create" /\ calls # <<>> /\ calls[1] = Call("Get", "found")) =>
        /\ pc = "done"
        /\ result = "requiresImport"
        /\ Len(calls) = 1
        /\ ~idSet

C2_Witness ==
    /\ op = "Create"
    /\ webApp.Name \in exists
    /\ calls = <<Call("Get", "found")>>
    /\ result = "requiresImport"

(* C3: a Read whose primary get reports that the site does not exist marks *)
(* the resource as gone and returns that, without an error, without any    *)
(* auxiliary read and without encoding state.                              *)
C3_ReadGone ==
    (op = "Read" /\ calls # <<>> /\ calls[1] = Call("Get", "notFound")) =>
        /\ pc = "done"
        /\ result = "gone"
        /\ Len(calls) = 1
        /\ ~encoded

C3_Witness ==
    /\ op = "Read"
    /\ calls = <<Call("Get", "notFound")>>
    /\ result = "gone"

C5_BackupDeleteWhenEmpty ==
    op = "Update" =>
        /\ GroupCallCount("backup") <= 1
        /\ Issued("DeleteBackupConfiguration") =>
               "backup" \in changed /\ "backup" \notin webApp.groups
        /\ Issued("UpdateBackupConfiguration") =>
               "backup" \in changed /\ "backup" \in webApp.groups
        /\ (result = "nil" /\ "backup" \in changed) =>
               IF "backup" \in webApp.groups
                  THEN Issued("UpdateBackupConfiguration")
                  ELSE Issued("DeleteBackupConfiguration")

C5_Witness ==
    /\ op = "Update"
    /\ result = "nil"
    /\ "backup" \in changed
    /\ "backup" \notin webApp.groups
    /\ Cardinality(Positions("DeleteBackupConfiguration")) = 1
    /\ ~Issued("UpdateBackupConfiguration")

(* C6: Create issues the create call only after the name-availability      *)
(* check answered 'available'; when the check fails or answers             *)
(* 'unavailable' Create returns an error, the check is its last remote     *)
(* call (no create, metadata or sub-resource call) and no ID is recorded.  *)
C6_CreateOnlyIfAvailable ==
    op = "Create" =>
        /\ \A j \in Positions("CreateOrUpdate") :
              \E i \in 1..(j - 1) : calls[i] = Call("CheckNameAvailability", "available")
        /\ \A i \in Positions("CheckNameAvailability") :
              calls[i].outcome # "available" =>
                  /\ pc = "done"
                  /\ result = "error"
                  /\ i = Len(calls)
                  /\ ~idSet
                  /\ ~Issued("CreateOrUpdate")
                  /\ ~Issued("UpdateMetadata")
                  /\ SubResourceCalls = <<>>

C6_Witness ==
    /\ op = "Create"
    /\ calls # <<>>
    /\ calls[Len(calls)] = Call("CheckNameAvailability", "unavailable")
    /\ result = "error"

\* The plan resolved by this Create is hosted on an isolated environment.
Isolated == servicePlan # "nil"

\* The environment lookup answered with a non-empty DNS suffix.
LookupGaveSuffix == existingASE.kind = "suffix" /\ existingASE.DNSSuffix # EmptyString

LookupFailed == servicePlan = "badId" \/ existingASE.kind = "fail"

(* C8: a Create whose DNS-suffix lookup failed, for either reason, has     *)
(* logged a warning, has not crashed, and has gone on to the               *)
(* name-availability check.                                                *)
C8_LookupFailureNonFatal ==
    (op = "Create" /\ pc \notin {"c_get", "c_plan", "c_ase"} /\ LookupFailed) =>
        /\ result # "panic"
        /\ warnings = 1
        /\ pc = "c_check" \/ Issued("CheckNameAvailability")

\* The update endpoints of the groups, in the order of the claim.
C9_Order == <<"UpdateApplicationSettings", "UpdateAuthSettings", "UpdateDiagnosticLogsConfig",
              "UpdateBackupConfiguration", "UpdateAzureStorageAccounts",
              "UpdateConnectionStrings">>

C9_NonEmpty(api) ==
    \E g \in webApp.groups : api \in GroupApis(g)

\* The calls a Create that runs to the end makes for its non-empty groups.
C9_Expected == SelectSeq(C9_Order, C9_NonEmpty)

(* C9: the sub-resource calls of a Create are issued after the create      *)
(* operation completed, they are a prefix of the update calls of its       *)
(* non-empty groups in the order app settings, auth, logs, backup, storage *)
(* accounts, connection strings, and all of them once Create returns nil;  *)
(* a call that fails is the last call and makes Create return an error;    *)
(* Create never issues a delete call.                                      *)
C9_CreateGroupOrder ==
    op = "Create" =>
        /\ Len(SubResourceCalls) <= Len(C9_Expected)
        /\ \A i \in DOMAIN SubResourceCalls : SubResourceCalls[i].api = C9_Expected[i]
        /\ SubResourceCalls # <<>> =>
               \E w \in Positions("WaitForCompletionRef") :
                  /\ calls[w].outcome = "ok"
                  /\ \A i \in DOMAIN calls : IsSubResourceCall(calls[i]) => w < i
        /\ result = "nil" =>
               /\ Len(SubResourceCalls) = Len(C9_Expected)
               /\ \A i \in DOMAIN SubResourceCalls : SubResourceCalls[i].outcome = "ok"
        /\ \A i \in DOMAIN calls :
              (IsSubResourceCall(calls[i]) /\ calls[i].outcome # "ok") =>
                  i = Len(calls) /\ pc = "done" /\ result = "error"
        /\ ~Issued("DeleteBackupConfiguration")
        /\ ~Issued("Delete")

C9_Witness ==
    /\ op = "Create"
    /\ webApp.groups = Groups
    /\ Len(SubResourceCalls) = 3
    /\ SubResourceCalls[3] = Call("UpdateDiagnosticLogsConfig", "fail")
    /\ result = "error"

\* An auxiliary read whose failure Read does not tolerate.
C10_Fatal(c) ==
    /\ c.api # "Get"
    /\ c.outcome # "ok"
    /\ ~(c.api = "GetBackupConfiguration" /\ c.outcome = "notFound")

(* C10: in Read an auxiliary read that fails (for backup: fails other than *)
(* with NotFound) is the last call, Read returns an error and encodes no   *)
(* state; after a backup read that answered NotFound Read goes on with the *)
(* remaining reads, and if none of them fails it encodes the state.        *)
C10_AuxReadFailureFatal ==
    op = "Read" =>
        /\ \A i \in DOMAIN calls :
              C10_Fatal(calls[i]) =>
                  i = Len(calls) /\ pc = "done" /\ result = "error" /\ ~encoded
        /\ \A i \in Positions("GetBackupConfiguration") :
              calls[i].outcome = "notFound" =>
                  /\ i = Len(calls) => (pc = "r_aux" /\ result = "running")
                  /\ (pc = "done" /\ \A j \in DOMAIN calls : ~C10_Fatal(calls[j])) =>
                        (encoded /\ result = "nil" /\ Len(calls) = 12)

C10_Witness ==
    /\ op = "Read"
    /\ pc = "done"
    /\ Issued("GetBackupConfiguration")
    /\ \A i \in Positions("GetBackupConfiguration") : calls[i].outcome = "notFound"
    /\ encoded
    /\ result = "nil"

\* The delete call as the claim describes it.
C11_IsDeleteCall(c) ==
    /\ c.api = "Delete"
    /\ c.deleteMetrics = TRUE
    /\ c.deleteEmptyServerFarm = FALSE

(* C11: a Delete whose ID parsed issues, as its one step, exactly one      *)
(* remote call, the delete call with delete-metrics = true and             *)
(* delete-empty-service-plan = false, and then returns: an error if and    *)
(* only if that call failed.  No Delete ever issues any other call or a    *)
(* second one.                                                             *)
C11_DeleteSingleCall ==
    /\ [](op = "Delete" =>
             /\ Len(calls) <= 1
             /\ \A i \in DOMAIN calls : C11_IsDeleteCall(calls[i])
             /\ pc = "d_delete" => calls = <<>>
             /\ (pc = "done" /\ calls # <<>>) =>
                    /\ result \in {"nil", "error"}
                    /\ result = "error" <=> calls[1].outcome # "ok")
    /\ [][(op = "Delete" /\ pc = "d_delete") =>
             (pc' = "done" /\ Len(calls') = 1)]_vars

C11_Witness ==
    /\ op = "Delete"
    /\ pc = "done"
    /\ Len(calls) = 1
    /\ C11_IsDeleteCall(calls[1])
    /\ calls[1].outcome = "fail"
    /\ result = "error"

\* A remote call that answered with an error.
C12_Failed(c) == c.outcome \in {"fail", "notFound"}

\* The existence check of Create answering 404: the case Create's
\* requires-import handling lets through.
C12_ExistenceCheckClear(i) ==
    op = "Create" /\ i = 1 /\ calls[i] = Call("Get", "notFound")

\* The failing call ended the invocation with an error, 'gone' or
\* 'requires import'.
C12_Ended(i) ==
    /\ i = Len(calls)
    /\ pc = "done"
    /\ result \in {"error", "gone", "requiresImport"}

(* C12 as stated: in Create, Read, Update and Delete every failing remote  *)
(* call other than the DNS-suffix lookup of Create (the environment get)   *)
(* ends the invocation with a returned error, or with the 'gone' or        *)
(* 'requires import' handling.                                             *)
C12_AsStated ==
    op \in {"Create", "Read", "Update", "Delete"} =>
        \A i \in DOMAIN calls :
            (C12_Failed(calls[i]) /\ calls[i].api # "AseGet"
                                  /\ ~C12_ExistenceCheckClear(i)) => C12_Ended(i)

(* C12 amended: as C12, with a second tolerated remote error: the backup   *)
(* read of Read answering NotFound.                                        *)
C12_OnlyToleratedErrors ==
    op \in {"Create", "Read", "Update", "Delete"} =>
        \A i \in DOMAIN calls :
            (C12_Failed(calls[i]) /\ calls[i].api # "AseGet"
                                  /\ ~C12_ExistenceCheckClear(i)
                                  /\ ~(op = "Read" /\ calls[i] =
                                          Call("GetBackupConfiguration", "notFound")))
                => C12_Ended(i)

C12_Witness ==
    /\ op = "Create"
    /\ Len(calls) = 4
    /\ calls[3] = Call("AseGet", "fail")
    /\ calls[4] = Call("CheckNameAvailability", "fail")
    /\ result = "error"

\* Remote errors the drivers go on after.
C14_Tolerated(i) ==
    \/ calls[i].api = "AseGet"
    \/ C12_ExistenceCheckClear(i)
    \/ op = "Read" /\ calls[i] = Call("GetBackupConfiguration", "notFound")

(* C14: within one invocation every remote endpoint is called at most      *)
(* once, and a call that fails with an error the driver does not tolerate  *)
(* is the last call of the invocation.                                     *)
C14_NoRetry ==
    op \in {"Create", "Read", "Update", "Delete"} =>
        /\ \A i, j \in DOMAIN calls : calls[i].api = calls[j].api => i = j
        /\ \A i \in DOMAIN calls :
              (calls[i].outcome # "ok" /\ calls[i].outcome # "found"
                  /\ calls[i].outcome # "available" /\ ~C14_Tolerated(i))
                  => i = Len(calls) /\ pc = "done"

C14_Witness ==
    /\ op = "Create"
    /\ webApp.groups = Groups
    /\ calls # <<>>
    /\ calls[Len(calls)] = Call("UpdateApplicationSettings", "fail")
    /\ pc = "done"

\* The invocation is past the block that stores the stack marker.
C15_PastMetadata ==
    \/ pc \in {"c_group", "u_group"}
    \/ pc = "done" /\ result = "nil"

(* C15: in Create and in Update the metadata update is issued only if a    *)
(* non-empty stack marker was extracted, it has been issued once the       *)
(* invocation is past that block with such a marker, and it comes after    *)
(* the successful wait for the primary operation and before every          *)
(* sub-resource call.                                                      *)
C15_MetadataIffStack ==
    op \in {"Create", "Update"} =>
        /\ Issued("UpdateMetadata") => (currentStack # "nil" /\ currentStack # "")
        /\ (C15_PastMetadata /\ currentStack # "nil" /\ currentStack # "")
               => Issued("UpdateMetadata")
        /\ \A m \in Positions("UpdateMetadata") :
              /\ m > 1
              /\ calls[m - 1] = Call("WaitForCompletionRef", "ok")
              /\ \A i \in DOMAIN calls : IsSubResourceCall(calls[i]) => m < i

C15_Witness ==
    /\ op = "Update"
    /\ currentStack = "dotnet"
    /\ Issued("UpdateMetadata")
    /\ Len(SubResourceCalls) >= 2

(* C16: an Update that gets as far as a remote call issues the primary     *)
(* create-or-update call first and only once; metadata and sub-resource    *)
(* calls are issued only after the wait for it returned successfully; when *)
(* the primary call or its wait fails Update returns an error and that is  *)
(* its last call.  An Update that returns nil has issued both.             *)
C16_UpdatePrimaryFirst ==
    op = "Update" =>
        /\ Cardinality(Positions("CreateOrUpdate")) <= 1
        /\ calls # <<>> => calls[1].api = "CreateOrUpdate"
        /\ Len(calls) >= 2 => calls[2].api = "WaitForCompletionRef"
        /\ Len(calls) >= 3 => calls[2].outcome = "ok"
        /\ \A i \in DOMAIN calls :
              (calls[i].api \in {"CreateOrUpdate", "WaitForCompletionRef"}
                  /\ calls[i].outcome # "ok")
                  => (i = Len(calls) /\ pc = "done" /\ result = "error")
        /\ pc \notin {"u_site", "done"} => calls # <<>>
        /\ result = "nil" => Len(calls) >= 2

C16_Witness ==
    /\ op = "Update"
    /\ changed = Groups
    /\ calls = <<Call("CreateOrUpdate", "ok"), Call("WaitForCompletionRef", "fail")>>
    /\ result = "error"

\* The auxiliary reads of the data source have all been answered well.
C17_AllReadsDone ==
    /\ Len(calls) = Len(DataSourceReadOrder) + 1
    /\ calls[1].api = "Get"
    /\ calls[1].outcome \notin {"notFound", "fail"}
    /\ \A i \in 1..Len(DataSourceReadOrder) :
          /\ calls[i + 1].api = DataSourceReadOrder[i]
          /\ \/ calls[i + 1].outcome = "ok"
             \/ calls[i + 1] = Call("GetBackupConfiguration", "notFound")

C18_IdRecordedAfterCreate ==
    (op = "Create" /\ pc = "done"
        /\ \E w \in Positions("WaitForCompletionRef") : calls[w].outcome = "ok")
        => idSet

\* The call logs of the two concurrent invocations.
C19_Logs == {calls, peer.calls}

\* A call log that holds the remote create call.
C19_IssuedCreate(log) == \E i \in DOMAIN log : log[i].api = "CreateOrUpdate"

\* A call log in which the remote create call was issued and its operation
\* completed.
C19_Created(log) ==
    \E i \in DOMAIN log :
        /\ log[i] = Call("CreateOrUpdate", "ok")
        /\ i < Len(log)
        /\ log[i + 1] = Call("WaitForCompletionRef", "ok")

C13_ReadBack == op = "Read" /\ pc = "done" /\ state.encoded

\* Every field of the configuration but the location is read back as given.
\* A current stack is a field of the configuration when the block names one.
C13_FieldsButLocation ==
    LET m == state.model
    IN /\ m.Name = webApp.Name
       /\ m.ResourceGroup = webApp.ResourceGroup
       /\ m.ServicePlanId = webApp.ServicePlanId
       /\ m.Enabled = webApp.Enabled
       /\ m.HttpsOnly = webApp.HttpsOnly
       /\ m.ClientAffinityEnabled = webApp.ClientAffinityEnabled
       /\ m.ClientCertEnabled = webApp.ClientCertEnabled
       /\ m.ClientCertMode = webApp.ClientCertMode
       /\ m.Tags = webApp.Tags
       /\ m.Identity = webApp.Identity
       /\ webApp.SiteConfig.current_stack # "nil" => m.SiteConfig = webApp.SiteConfig
       /\ \A g \in Groups : m.settings[g] = GroupSetting(webApp.groups, g)

====
